---- MODULE Spec2Model ----
(***************************************************************************)
(* Model of account_gen.py: the provisioning pipeline main() runs against  *)
(* Onezone (the zone), its Onepanel and LUMA (the mapping service).        *)
(* Strings are sequences of one-character strings, so that str(), zfill(), *)
(* ','.join, rsplit('/') and the reading back of the CSV file are          *)
(* computed character by character.                                        *)
(***************************************************************************)
EXTENDS Integers, Sequences, FiniteSets, TLC

VARIABLES
    low,          \* LOW_UID_RANGE
    high,         \* HIGH_UID_RANGE
    prefix,       \* USER_LOGIN_PREFIX
    pc,           \* position of main(): the call it is about to issue
    idx,          \* position of the running for-loop in its list (1-based)
    user_logins,  \* main's user_logins: <<uid, login>> tuples
    users,        \* the list getUserIdsAndTokens builds: <<uid, login, id, token>>
    user_id,      \* getUserIdsAndTokens' local user_id
    luma_id,      \* addUserMappingsToLUMA's local luma_id
    file,         \* content of <prefix>_accounts.csv
    fileExists,   \* whether <prefix>_accounts.csv exists
    created,      \* zone: usernames of the accounts that exist
    enrolled,     \* zone: identities that are members of the space
    registered,   \* mapping service: identities it has registered
    run,          \* number of the current run of the script
    ncalls,       \* this run: requests issued, per kind of call
    allOk,        \* this run: every response so far had an accepted status
    lastOp,       \* kind of the last request of this run
    lastStatus,   \* status code of its response
    lastArg,      \* what the last request carried
    lastUsed,     \* whether the last response's payload was taken into the run's data
    zoneIds,      \* this run: identities the zone returned, in order
    zoneTokens,   \* this run: tokens the zone issued, in order
    lastLocation, \* Location header of the last registration response
    written,      \* whether this run has written the file
    fileAtStart,  \* <<fileExists, file>> when this run started
    prevRunOk     \* the previous run ended with the file written and every call accepted

vars == <<low, high, prefix, pc, idx, user_logins, users, user_id, luma_id, file,
          fileExists, created, enrolled, registered, run, ncalls, allOk, lastOp,
          lastStatus, lastArg, lastUsed, zoneIds, zoneTokens, lastLocation, written,
          fileAtStart, prevRunOk>>

----------------------------------------------------------------------------
(* Bounds of the model *)

\* largest number of logins of a pipeline run (HIGH_UID_RANGE - LOW_UID_RANGE)
MaxUsers == 2
\* number of times the script is run one after the other
MaxRuns == 2
\* largest HIGH - LOW tried on generateUserLogins alone
MaxGen == 3

(* Program constants *)
LOW_UID_RANGE == 1001
DEFAULT_SPACE_GID == 2000
\* str(i).zfill(5)
ZFillWidth == 5

----------------------------------------------------------------------------
(* Strings *)

Digit(d) == CASE d = 0 -> "0" [] d = 1 -> "1" [] d = 2 -> "2" [] d = 3 -> "3"
              [] d = 4 -> "4" [] d = 5 -> "5" [] d = 6 -> "6" [] d = 7 -> "7"
              [] d = 8 -> "8" [] d = 9 -> "9"

RECURSIVE NatStr(_)
NatStr(n) == IF n < 10 THEN <<Digit(n)>> ELSE NatStr(n \div 10) \o <<Digit(n % 10)>>

\* str(i) of a Python int
Str(i) == IF i < 0 THEN <<"-">> \o NatStr(-i) ELSE NatStr(i)

RECURSIVE Zeros(_)
Zeros(n) == IF n <= 0 THEN <<>> ELSE <<"0">> \o Zeros(n - 1)

\* s.zfill(width): zeros go between a leading sign and the digits
ZFill(s, width) ==
    IF Len(s) >= width THEN s
    ELSE IF Len(s) > 0 /\ s[1] \in {"-", "+"}
         THEN <<s[1]>> \o Zeros(width - Len(s)) \o Tail(s)
         ELSE Zeros(width - Len(s)) \o s

\* sep.join(parts)
RECURSIVE Join(_, _)
Join(parts, sep) ==
    IF Len(parts) = 0 THEN <<>>
    ELSE IF Len(parts) = 1 THEN parts[1]
    ELSE parts[1] \o <<sep>> \o Join(Tail(parts), sep)

\* s.rsplit('/', 1): <<head, last segment>>, or <<s>> when s has no '/'
RSplit1(s) ==
    LET cuts == {i \in 1..Len(s) : s[i] = "/"}
    IN  IF cuts = {} THEN <<s>>
        ELSE LET c == CHOOSE i \in cuts : \A j \in cuts : j <= i
             IN  <<SubSeq(s, 1, c - 1), SubSeq(s, c + 1, Len(s))>>

----------------------------------------------------------------------------
(* checkResponse *)

\* a raise_for_status that lets the server errors through
MutRaiseClientErrorsOnly(status) == 400 <= status /\ status < 500

\* requests' Response.raise_for_status(): raises HTTPError for 4xx and 5xx only
RaiseForStatus(status) == 400 <= status /\ status < 600

Accepted == {200, 201, 202, 204}

\* a checkResponse that raises on the server errors only
MutCheckResponseServerErrors(status) == status \notin Accepted /\ status >= 500

\* checkResponse(res) raises
checkResponse(status) == status \notin Accepted /\ RaiseForStatus(status)

----------------------------------------------------------------------------
(* generateUserLogins *)

RECURSIVE PyRange(_, _)
PyRange(lo, hi) == IF lo >= hi THEN <<>> ELSE <<lo>> \o PyRange(lo + 1, hi)

\* a generator whose range includes high_range
MutGenerateInclusive(low_range, high_range, pfx) ==
    LET r == PyRange(low_range, high_range + 1)
    IN  [k \in 1..Len(r) |-> <<r[k], pfx \o ZFill(Str(r[k]), ZFillWidth)>>]

generateUserLogins(low_range, high_range, pfx) ==
    LET r == PyRange(low_range, high_range)
    IN  [k \in 1..Len(r) |-> <<r[k], pfx \o ZFill(Str(r[k]), ZFillWidth)>>]

----------------------------------------------------------------------------
(* The remote services, as far as the script sees them *)

Ops == {"create", "identity", "token", "enroll", "default_group", "register",
        "credentials"}

\* status codes a service may answer with
Statuses == Accepted \cup {203, 304, 409, 500}

\* Onepanel refuses to create an account under a username that exists
CreateStatuses(username) == IF username \in created THEN {409} ELSE Statuses

\* userId values of GET /user
Identities == {<<"a">>, <<"b", ",", "c">>}

\* token values of POST /user/client_tokens
Tokens == {<<"t">>, <<"s", "\n">>}

\* Location headers of POST /admin/users; a conforming one ends in /<luma id>
Locations(status) ==
    IF status \in Accepted THEN {<<"/", "u", "/", "7">>, <<"/", "8">>}
    ELSE {<<"/", "8">>, <<"9">>}

\* a response that is not an error may come without the JSON field or header read
HasPayload(status) == IF status \in Accepted THEN {TRUE}
                      ELSE IF RaiseForStatus(status) THEN {FALSE}
                      ELSE BOOLEAN

\* the service carries a request out unless it answers with an error status
CarriedOut(status) == ~RaiseForStatus(status)

NoArg == [who |-> <<>>, uid |-> 0, gid |-> 0]

\* bookkeeping of one request and its response
Call(op, status, arg, used) ==
    /\ ncalls' = [ncalls EXCEPT ![op] = @ + 1]
    /\ allOk' = (allOk /\ status \in Accepted)
    /\ lastOp' = op
    /\ lastStatus' = status
    /\ lastArg' = arg
    /\ lastUsed' = used

----------------------------------------------------------------------------
(* main *)

\* where main() goes when the loop or call at `at` is over, for n logins
PcAfter(at, n) ==
    CASE at = "generate"        -> IF n = 0 THEN "map_default" ELSE "provision"
      [] at = "provision"       -> "harvest_identity"
      [] at = "harvest_token"   -> "enroll"
      [] at = "enroll"          -> "map_default"
      [] at = "map_default"     -> IF n = 0 THEN "persist" ELSE "map_register"
      [] at = "map_credentials" -> "persist"

\* user_logins = generateUserLogins(LOW_UID_RANGE, HIGH_UID_RANGE, USER_LOGIN_PREFIX)
Generate ==
    /\ pc = "generate"
    /\ user_logins' = generateUserLogins(low, high, prefix)
    /\ pc' = PcAfter("generate", Len(user_logins'))
    /\ idx' = 1
    /\ UNCHANGED <<low, high, prefix, users, user_id, luma_id, file, fileExists,
                   created, enrolled, registered, run, ncalls, allOk, lastOp,
                   lastStatus, lastArg, lastUsed, zoneIds, zoneTokens, lastLocation,
                   written, fileAtStart, prevRunOk>>

\* one turn of addUsersToOnezone's loop
CreateAccount ==
    /\ pc = "provision"
    /\ LET user == user_logins[idx]
       IN  \E status \in CreateStatuses(user[2]) :
             /\ Call("create", status, [NoArg EXCEPT !.who = user[2]], FALSE)
             /\ created' = IF CarriedOut(status) THEN created \cup {user[2]} ELSE created
             /\ IF checkResponse(status)
                THEN pc' = "aborted" /\ idx' = idx
                ELSE IF idx < Len(user_logins)
                     THEN pc' = pc /\ idx' = idx + 1
                     ELSE pc' = PcAfter("provision", Len(user_logins)) /\ idx' = 1
    /\ UNCHANGED <<low, high, prefix, user_logins, users, user_id, luma_id, file,
                   fileExists, enrolled, registered, run, zoneIds, zoneTokens,
                   lastLocation, written, fileAtStart, prevRunOk>>

\* getUserIdsAndTokens' loop, first half: GET /user as the user
GetIdentity ==
    /\ pc = "harvest_identity"
    /\ LET user == user_logins[idx]
       IN  \E status \in Statuses : \E has \in HasPayload(status) :
           \E body \in (IF has THEN Identities ELSE {<<>>}) :
             /\ Call("identity", status, [NoArg EXCEPT !.who = user[2]],
                     ~checkResponse(status) /\ has)
             /\ zoneIds' = IF has THEN Append(zoneIds, body) ELSE zoneIds
             /\ IF checkResponse(status) \/ ~has
                THEN pc' = "aborted" /\ user_id' = user_id
                ELSE pc' = "harvest_token" /\ user_id' = body
    /\ UNCHANGED <<low, high, prefix, idx, user_logins, users, luma_id, file,
                   fileExists, created, enrolled, registered, run, zoneTokens,
                   lastLocation, written, fileAtStart, prevRunOk>>

\* getUserIdsAndTokens' loop, second half: POST /user/client_tokens as the user
MintToken ==
    /\ pc = "harvest_token"
    /\ LET user == user_logins[idx]
       IN  \E status \in Statuses : \E has \in HasPayload(status) :
           \E body \in (IF has THEN Tokens ELSE {<<>>}) :
             /\ Call("token", status, [NoArg EXCEPT !.who = user[2]],
                     ~checkResponse(status) /\ has)
             /\ zoneTokens' = IF has THEN Append(zoneTokens, body) ELSE zoneTokens
             /\ IF checkResponse(status) \/ ~has
                THEN pc' = "aborted" /\ idx' = idx /\ users' = users
                ELSE /\ users' = Append(users, <<user[1], user[2], user_id, body>>)
                     /\ IF idx < Len(user_logins)
                        THEN pc' = "harvest_identity" /\ idx' = idx + 1
                        ELSE pc' = PcAfter("harvest_token", Len(user_logins)) /\ idx' = 1
    /\ UNCHANGED <<low, high, prefix, user_logins, user_id, luma_id, file, fileExists,
                   created, enrolled, registered, run, zoneIds, lastLocation, written,
                   fileAtStart, prevRunOk>>

\* one turn of addUsersToSpace's loop
Enroll ==
    /\ pc = "enroll"
    /\ LET user == users[idx]
       IN  \E status \in Statuses :
             /\ Call("enroll", status, [NoArg EXCEPT !.who = user[3]], FALSE)
             /\ enrolled' = IF CarriedOut(status) THEN enrolled \cup {user[3]} ELSE enrolled
             /\ IF checkResponse(status)
                THEN pc' = "aborted" /\ idx' = idx
                ELSE IF idx < Len(users)
                     THEN pc' = pc /\ idx' = idx + 1
                     ELSE pc' = PcAfter("enroll", Len(users)) /\ idx' = 1
    /\ UNCHANGED <<low, high, prefix, user_logins, users, user_id, luma_id, file,
                   fileExists, created, registered, run, zoneIds, zoneTokens,
                   lastLocation, written, fileAtStart, prevRunOk>>

\* addUserMappingsToLUMA, before its loop: PUT .../default_group
SetDefaultGroup ==
    /\ pc = "map_default"
    /\ \E status \in Statuses :
         /\ Call("default_group", status, [NoArg EXCEPT !.gid = DEFAULT_SPACE_GID], FALSE)
         /\ IF checkResponse(status)
            THEN pc' = "aborted"
            ELSE pc' = PcAfter("map_default", Len(users))
    /\ idx' = 1
    /\ UNCHANGED <<low, high, prefix, user_logins, users, user_id, luma_id, file,
                   fileExists, created, enrolled, registered, run, zoneIds, zoneTokens,
                   lastLocation, written, fileAtStart, prevRunOk>>

\* addUserMappingsToLUMA's loop, first half: POST /admin/users
RegisterUser ==
    /\ pc = "map_register"
    /\ LET user == users[idx]
       IN  \E status \in Statuses : \E has \in HasPayload(status) :
           \E loc \in (IF has THEN Locations(status) ELSE {<<>>}) :
             LET parts == RSplit1(loc)
                 unpacked == has /\ Len(parts) = 2
             IN  /\ Call("register", status, [NoArg EXCEPT !.who = user[3]],
                         ~checkResponse(status) /\ unpacked)
                 /\ registered' = IF CarriedOut(status) THEN registered \cup {user[3]}
                                  ELSE registered
                 /\ lastLocation' = IF has THEN loc ELSE lastLocation
                 /\ IF checkResponse(status) \/ ~unpacked
                    THEN pc' = "aborted" /\ luma_id' = luma_id
                    ELSE pc' = "map_credentials" /\ luma_id' = parts[2]
    /\ UNCHANGED <<low, high, prefix, idx, user_logins, users, user_id, file,
                   fileExists, created, enrolled, run, zoneIds, zoneTokens, written,
                   fileAtStart, prevRunOk>>

\* addUserMappingsToLUMA's loop, second half: PUT /admin/users/<luma_id>/credentials
SetCredentials ==
    /\ pc = "map_credentials"
    /\ LET user == users[idx]
       IN  \E status \in Statuses :
             /\ Call("credentials", status,
                     [who |-> luma_id, uid |-> user[1], gid |-> user[1]], FALSE)
             /\ IF checkResponse(status)
                THEN pc' = "aborted" /\ idx' = idx
                ELSE IF idx < Len(users)
                     THEN pc' = "map_register" /\ idx' = idx + 1
                     ELSE pc' = PcAfter("map_credentials", Len(users)) /\ idx' = 1
    /\ UNCHANGED <<low, high, prefix, user_logins, users, user_id, luma_id, file,
                   fileExists, created, enrolled, registered, run, zoneIds, zoneTokens,
                   lastLocation, written, fileAtStart, prevRunOk>>

\* a line that puts the token before the identity
MutCsvLineSwapped(user) == Join(<<Str(user[1]), user[2], user[4], user[3]>>, ",") \o <<"\n">>

\* ','.join(map(str, user)) + '\n'
CsvLine(user) == Join(<<Str(user[1]), user[2], user[3], user[4]>>, ",") \o <<"\n">>

RECURSIVE CsvText(_)
CsvText(us) == IF Len(us) = 0 THEN <<>> ELSE CsvLine(us[1]) \o CsvText(Tail(us))

\* a file opened for appending, as the docstring has it
MutOpenAppend(old, us) == old \o CsvText(us)

\* what open(filename, "w+") and the writes leave in the file
OpenAndWrite(old, us) == CsvText(us)

writeUserAccounts ==
    /\ pc = "persist"
    /\ file' = OpenAndWrite(file, users)
    /\ fileExists' = TRUE
    /\ written' = TRUE
    /\ pc' = "done"
    /\ UNCHANGED <<low, high, prefix, idx, user_logins, users, user_id, luma_id,
                   created, enrolled, registered, run, ncalls, allOk, lastOp,
                   lastStatus, lastArg, lastUsed, zoneIds, zoneTokens, lastLocation,
                   fileAtStart, prevRunOk>>

\* the script is started again, with the same configuration
StartRun ==
    /\ pc \in {"done", "aborted"}
    /\ run < MaxRuns
    /\ run' = run + 1
    /\ prevRunOk' = (pc = "done" /\ allOk)
    /\ fileAtStart' = <<fileExists, file>>
    /\ pc' = "generate"
    /\ idx' = 1
    /\ user_logins' = <<>>
    /\ users' = <<>>
    /\ user_id' = <<>>
    /\ luma_id' = <<>>
    /\ ncalls' = [op \in Ops |-> 0]
    /\ allOk' = TRUE
    /\ lastOp' = "none"
    /\ lastStatus' = 0
    /\ lastArg' = NoArg
    /\ lastUsed' = FALSE
    /\ zoneIds' = <<>>
    /\ zoneTokens' = <<>>
    /\ lastLocation' = <<>>
    /\ written' = FALSE
    /\ UNCHANGED <<low, high, prefix, file, fileExists, created, enrolled, registered>>

----------------------------------------------------------------------------
(* Specifications *)

\* a file an earlier use of the script left behind
OldFile == <<"9", ",", "o", "\n">>

InitRun(l, h, p, exists) ==
    /\ low = l
    /\ high = h
    /\ prefix = p
    /\ pc = "generate"
    /\ idx = 1
    /\ user_logins = <<>>
    /\ users = <<>>
    /\ user_id = <<>>
    /\ luma_id = <<>>
    /\ fileExists = exists
    /\ file = IF exists THEN OldFile ELSE <<>>
    /\ created = {}
    /\ enrolled = {}
    /\ registered = {}
    /\ run = 1
    /\ ncalls = [op \in Ops |-> 0]
    /\ allOk = TRUE
    /\ lastOp = "none"
    /\ lastStatus = 0
    /\ lastArg = NoArg
    /\ lastUsed = FALSE
    /\ zoneIds = <<>>
    /\ zoneTokens = <<>>
    /\ lastLocation = <<>>
    /\ written = FALSE
    /\ fileAtStart = <<exists, IF exists THEN OldFile ELSE <<>> >>
    /\ prevRunOk = FALSE

\* USER_LOGIN_PREFIX
USER_LOGIN_PREFIX == <<"X", "X">>

\* the pipeline, run up to MaxRuns times on a range of up to MaxUsers logins
Init ==
    \E h \in (LOW_UID_RANGE - 1)..(LOW_UID_RANGE + MaxUsers) : \E exists \in BOOLEAN :
        InitRun(LOW_UID_RANGE, h, USER_LOGIN_PREFIX, exists)

Next ==
    \/ Generate
    \/ CreateAccount
    \/ GetIdentity
    \/ MintToken
    \/ Enroll
    \/ SetDefaultGroup
    \/ RegisterUser
    \/ SetCredentials
    \/ writeUserAccounts
    \/ StartRun

Spec == Init /\ [][Next]_vars

\* generateUserLogins alone, on ranges around a sign change and a change of width
GenLows == {0 - 12, 0 - 1, 8, 98, 1001, 99998}

GenPrefixes == {<<>>, <<"X", "X">>, <<"u", "0">>}

InitGen ==
    \E l \in GenLows : \E h \in (l - 2)..(l + MaxGen) : \E p \in GenPrefixes :
        InitRun(l, h, p, FALSE)

NextGen == Generate

SpecGen == InitGen /\ [][NextGen]_vars

----------------------------------------------------------------------------
(* What the claims speak of *)

\* number of logins of the configured range
RangeSize == IF high > low THEN high - low ELSE 0

\* login, identity and token of every user so far are free of ',' and line breaks
DelimiterFree ==
    LET clean(str) == \A j \in 1..Len(str) : str[j] \notin {",", "\n"}
    IN  /\ \A k \in 1..Len(user_logins) : clean(user_logins[k][2])
        /\ \A k \in 1..Len(zoneIds) : clean(zoneIds[k])
        /\ \A k \in 1..Len(zoneTokens) : clean(zoneTokens[k])

\* the requests of a run whose last request is `op` for the k-th of n users, when
\* the stages run as one forward chain and each handles the users in order
ChainCalls(op, k, n) ==
    LET stage == CASE op = "create" -> 1
                   [] op \in {"identity", "token"} -> 2
                   [] op = "enroll" -> 3
                   [] OTHER -> 4
    IN  [o \in Ops |->
           CASE o = "create"        -> IF stage > 1 THEN n ELSE k
             [] o = "identity"      -> IF stage < 2 THEN 0 ELSE IF stage = 2 THEN k ELSE n
             [] o = "token"         -> IF stage < 2 THEN 0
                                       ELSE IF op = "identity" THEN k - 1
                                       ELSE IF op = "token" THEN k ELSE n
             [] o = "enroll"        -> IF stage < 3 THEN 0 ELSE IF stage = 3 THEN k ELSE n
             [] o = "default_group" -> IF stage < 4 THEN 0 ELSE 1
             [] o = "register"      -> IF op \in {"register", "credentials"} THEN k ELSE 0
             [] o = "credentials"   -> IF op = "register" THEN k - 1
                                       ELSE IF op = "credentials" THEN k ELSE 0]

\* the requests issued so far are a prefix of the forward chain
CallsFollowChain ==
    IF lastOp = "none" THEN \A op \in Ops : ncalls[op] = 0
    ELSE IF lastOp = "default_group" THEN ncalls = ChainCalls(lastOp, 0, RangeSize)
    ELSE \E k \in 1..RangeSize : ncalls = ChainCalls(lastOp, k, RangeSize)

\* reading the file back, s.split(sep): cuts at every sep, so it has one field more than s has seps
RECURSIVE SplitFrom(_, _, _)
SplitFrom(s, sep, cur) ==
    IF Len(s) = 0 THEN <<cur>>
    ELSE IF s[1] = sep THEN <<cur>> \o SplitFrom(Tail(s), sep, <<>>)
    ELSE SplitFrom(Tail(s), sep, Append(cur, s[1]))

Split(s, sep) == SplitFrom(s, sep, <<>>)

\* the lines a reader of the text gets: a text that ends a line has no line after it
Lines(text) ==
    LET parts == Split(text, "\n")
    IN  IF parts[Len(parts)] = <<>> THEN SubSeq(parts, 1, Len(parts) - 1) ELSE parts

\* the file is as it was when the run started
FileUntouched == fileExists = fileAtStart[1] /\ file = fileAtStart[2]

----------------------------------------------------------------------------
(* C1 *)

\* C1: a call answered with status 500 is the last call of its run: the run is
\* aborted at it, with the calls issued so far a prefix of the chain that ends at
\* the failing call (none of a later stage, none for a later user), and the output
\* file is neither written nor changed; an enrollment that fails for the 2nd user
\* leaves the three mapping-service calls unissued.
C1_FailFastOn500 ==
    (lastOp # "none" /\ lastStatus = 500) =>
        /\ pc = "aborted"
        /\ ~written
        /\ FileUntouched
        /\ ncalls = ChainCalls(lastOp, IF lastOp = "default_group" THEN 0 ELSE idx, RangeSize)
        /\ lastOp = "enroll" =>
             \A op \in {"default_group", "register", "credentials"} : ncalls[op] = 0

C1_Witness ==
    /\ lastOp = "enroll" /\ lastStatus = 500 /\ idx = 2
    /\ pc = "aborted" /\ ncalls["enroll"] = 2

(* C2 *)

\* C2: a response whose status is not 200, 201, 202 or 204 is a hard error: the
\* run is aborted at that call, the payload of the response is not used, and the
\* file is not written.
C2_NonAcceptedIsHardError ==
    (lastOp # "none" /\ lastStatus \notin Accepted) =>
        /\ pc = "aborted"
        /\ ~lastUsed
        /\ ~written

(* C3 *)

\* main() is about to issue the first call of a stage
AtStageStart ==
    \/ pc \in {"harvest_identity", "enroll"} /\ idx = 1
    \/ pc = "map_default"

\* C3: the calls are issued in the order of the chain GENERATE, PROVISION,
\* HARVEST, ENROLL, MAP, PERSIST, stage by stage and user by user, a stage is
\* entered only when every call before it has succeeded, and the file is written
\* only after the last mapping call.
C3_StrictStageOrder ==
    /\ CallsFollowChain
    /\ AtStageStart => allOk
    /\ written => ncalls = ChainCalls("credentials", RangeSize, RangeSize)

(* C4 *)

Digits == {"0", "1", "2", "3", "4", "5", "6", "7", "8", "9"}

\* value of a sequence of decimal digits
RECURSIVE DecValue(_)
DecValue(ds) ==
    IF Len(ds) = 0 THEN 0
    ELSE 10 * DecValue(SubSeq(ds, 1, Len(ds) - 1))
         + (CHOOSE d \in 0..9 : Digit(d) = ds[Len(ds)])

\* str is the decimal numeral of i, filled with zeros up to width w
IsZeroPadded(str, i, w) ==
    LET ds == IF i < 0 THEN Tail(str) ELSE str
    IN  /\ Len(str) >= w
        /\ i < 0 => str[1] = "-"
        /\ Len(ds) >= 1
        /\ \A j \in 1..Len(ds) : ds[j] \in Digits
        /\ DecValue(ds) = (IF i < 0 THEN 0 - i ELSE i)
        /\ Len(str) > w => ds[1] # "0"

\* C4: generateUserLogins(L, H, P) is the sequence of the pairs (i, P + i padded
\* with zeros to width 5) for i = L .. H-1 in increasing order: H-L records when
\* L < H, with increasing ids and pairwise distinct logins, none when H <= L.
C4_LoginGenerator ==
    pc # "generate" =>
        /\ Len(user_logins) = (IF low < high THEN high - low ELSE 0)
        /\ \A k \in 1..Len(user_logins) :
             LET rec == user_logins[k]
                 rest == SubSeq(rec[2], Len(prefix) + 1, Len(rec[2]))
             IN  /\ Len(rec) = 2
                 /\ rec[1] = low + k - 1
                 /\ SubSeq(rec[2], 1, Len(prefix)) = prefix
                 /\ IsZeroPadded(rest, rec[1], 5)
        /\ \A j, k \in 1..Len(user_logins) :
             j < k => /\ user_logins[j][1] < user_logins[k][1]
                      /\ user_logins[j][2] # user_logins[k][2]

C4_Witness ==
    /\ pc # "generate"
    /\ low = 99998
    /\ Len(user_logins) = 3
    /\ user_logins[3][2] = prefix \o <<"1", "0", "0", "0", "0", "0">>

(* C5 *)

\* the file read back: N lines, each ended by a newline, the k-th with the four
\* fields uid, login, identity returned, token issued of the k-th user
ReadsBackAsWritten ==
    LET ls == Lines(file)
    IN  /\ Len(ls) = RangeSize
        /\ Len(file) > 0 => file[Len(file)] = "\n"
        /\ \A k \in 1..RangeSize :
             /\ k <= Len(ls)
             /\ Split(ls[k], ",") =
                  <<Str(low + k - 1), user_logins[k][2], zoneIds[k], zoneTokens[k]>>
             /\ users[k][1] = user_logins[k][1]
             /\ users[k][2] = user_logins[k][2]

C7_AppendsToExistingFile ==
    (written /\ fileAtStart[1]) => file = fileAtStart[2] \o CsvText(users)

(* C8 *)

\* the run fails at its first create-account call
FailsAtAccountCreation ==
    /\ \A op \in Ops \ {"create"} : ncalls[op] = 0
    /\ ncalls["create"] <= 1
    /\ ncalls["create"] = 1 => (pc = "aborted" /\ lastStatus \notin Accepted)
    /\ pc \notin {"persist", "done"}
    /\ ~written

\* C8 as claimed: a run that follows a successful run with the same range fails
\* at account creation, whatever the range.
C8_RerunFailsAnyRange == (run >= 2 /\ prevRunOk) => FailsAtAccountCreation

\* C8 as amended: a run that follows a successful run with the same, non-empty
\* range aborts at its first create-account call, issues no identity, token,
\* enrollment or mapping call and never reaches the file write.
C8_RerunFails == (run >= 2 /\ prevRunOk /\ low < high) => FailsAtAccountCreation

C8_Witness ==
    /\ run = 2 /\ prevRunOk /\ low < high
    /\ pc = "aborted" /\ ncalls["create"] = 1 /\ lastStatus = 409

(* C9 *)

\* C9: the default-group call is issued once and has succeeded before the first
\* per-user mapping call; each registration carries the identity the zone returned
\* for its user; each credentials call follows its user's registration, goes to the
\* id that ends the Location of that registration's response, and carries
\* uid = gid = the numeric id of the user's Login Record.
C9_MappingProtocol ==
    /\ ncalls["default_group"] <= 1
    /\ ncalls["register"] > 0 => ncalls["default_group"] = 1
    /\ pc \in {"persist", "done"} => ncalls["default_group"] = 1
    /\ (lastOp = "default_group" /\ pc = "map_register") => lastStatus \in Accepted
    /\ lastOp = "register" =>
         /\ ncalls["credentials"] = ncalls["register"] - 1
         /\ lastArg.who = zoneIds[ncalls["register"]]
    /\ lastOp = "credentials" =>
         /\ ncalls["credentials"] = ncalls["register"]
         /\ lastArg.who = RSplit1(lastLocation)[2]
         /\ lastArg.uid = user_logins[ncalls["credentials"]][1]
         /\ lastArg.gid = lastArg.uid

(* C10 *)

\* C10: the file is written only in a run in which every remote call succeeded,
\* a run that aborts leaves the file as it was, and the accounts created and the
\* users enrolled by the calls before the last one stay in place.
C10_AllOrNothing ==
    /\ written => (allOk /\ ncalls = ChainCalls("credentials", RangeSize, RangeSize))
    /\ ~written => FileUntouched
    /\ pc = "aborted" => ~written
    /\ \A k \in 1..Len(user_logins) :
         (k < ncalls["create"] \/ (k = ncalls["create"] /\ lastOp # "create"))
            => user_logins[k][2] \in created
    /\ \A k \in 1..Len(users) :
         (k < ncalls["enroll"] \/ (k = ncalls["enroll"] /\ lastOp # "enroll"))
            => users[k][3] \in enrolled

====
